---- MODULE Spec2Model ----
(***************************************************************************)
(* Model of LabeledVerticalSlider (src/labeledverticalslider.py): a        *)
(* QSlider over the positions of a list of legal values, a value label,    *)
(* and the externally set value kept in _internal_value; and of PiCam      *)
(* (src/app.py), which owns one slider per sensor field, pushes their      *)
(* notifications into the camera controls and handles the buttons.         *)
(*                                                                         *)
(* Optional Python values (None or a number) are sequences of length at    *)
(* most one: <<>> is None, <<v>> is the number v.  Positions are 0-based   *)
(* as in Python; values[i] is written At(values, i).                       *)
(***************************************************************************)
EXTENDS Integers, Sequences, FiniteSets, TLC

VARIABLES
    constructed,   \* __init__ returned normally: an instance exists
    alive,         \* the process has not been aborted by an exception in a slot
    values,        \* self.values
    default,       \* self.default
    internal,      \* self._internal_value
    smax,          \* self.slider.maximum() (the minimum is always 0)
    index,         \* self.slider.value()
    text,          \* self.lbl_value.text()
    closest,       \* the local `closest` of the last setValue
    emitted,       \* payloads of value_changed emitted by the last operation
    err,           \* exception raised by the last operation, "none" if none
    lastOp,        \* the last operation and its argument
    repeated,      \* the last operation was setValue(v) right after setValue(v)
    replaced,      \* setNewValues has been called on this instance
    selectedBefore, \* values[index] as it was when the last setNewValues was entered (optional)
    \* PiCam (src/app.py)
    sliders,       \* self.sliders: field -> the state of its LabeledVerticalSlider
    controls,      \* the camera controls of the tracked fields set through picam2.set_controls
    status,        \* self.status_labels: field -> label text
    config_visible,\* self.ui_config_screen.isVisible()
    current_mode,  \* self.current_mode (optional string)
    recording,     \* self.output_mp4.recording
    appOp,         \* the last PiCam event, its field and argument
    lastMeta,      \* the metadata of the last post_callback
    applied,       \* the setValue calls <<field, value>> made by the last post_callback
    appErr,        \* exception raised by the last PiCam event, "none" if none
    modeOnly       \* no Sensor or Image button has been pressed

sliderVars == <<constructed, alive, values, default, internal, smax, index, text,
                closest, emitted, err, lastOp, repeated, replaced,
                selectedBefore>>

appVars == <<sliders, controls, status, config_visible, current_mode, recording,
             appOp, lastMeta, applied, appErr, modeOnly>>

vars == <<sliderVars, appVars>>

\* ---------------------------------------------------------------- bounds
MaxLen == 3
MaxVal == 2

DomainValues == 0..MaxVal
RequestValues == (0 - 1)..(MaxVal + 1)

RECURSIVE SeqsUpTo(_, _)
SeqsUpTo(S, n) ==
    IF n = 0 THEN {<<>>}
    ELSE LET shorter == SeqsUpTo(S, n - 1)
         IN  shorter \cup {Append(s, x) : s \in {t \in shorter : Len(t) = n - 1}, x \in S}

Domains == SeqsUpTo(DomainValues, MaxLen)

\* Domains handed to setNewValues: list(range(0, m + step, step)), the shape
\* the application builds for a replacement (src/app.py line 223).
IsRangeFromZero(d) ==
    /\ Len(d) >= 1
    /\ d[1] = 0
    /\ \E step \in 1..(MaxVal + 1) : \A i \in 1..Len(d) : d[i] = (i - 1) * step

ReplacementDomains == {d \in Domains : IsRangeFromZero(d)}

\* ---------------------------------------------------------------- Python values
None == <<>>
Some(v) == <<v>>
IsNone(o) == o = <<>>
Get(o) == o[1]

\* values[i] with a 0-based, non-negative i
At(vals, i) == vals[i + 1]
InBounds(vals, i) == i >= 0 /\ i < Len(vals)

Abs(x) == IF x < 0 THEN 0 - x ELSE x

\* f'{x}' for an int or None
Format(o) == IF IsNone(o) THEN "None" ELSE ToString(Get(o))

\* pyqtSignal(float): the payload of value_changed is float(value)
Float(v) == [type |-> "float", val |-> v]

\* list.index(x): position of the first occurrence (x is in vals)
RECURSIVE IndexFrom(_, _, _)
IndexFrom(vals, x, i) ==
    IF At(vals, i) = x THEN i ELSE IndexFrom(vals, x, i + 1)

ListIndex(vals, x) == IndexFrom(vals, x, 0)

Contains(vals, x) == \E i \in 1..Len(vals) : vals[i] = x

\* ---------------------------------------------------------------- getClosestValue
\* The loop of getClosestValue from position i on, with the locals
\* closest (optional) and closest_diff (optional: None stands for math.inf).
RECURSIVE ClosestLoop(_, _, _, _, _)
ClosestLoop(vals, next_val, i, best, bestDiff) ==
    IF i >= Len(vals) THEN best
    ELSE LET v == At(vals, i)
             diff == Abs(next_val - v)
         IN  IF ~IsNone(bestDiff) /\ diff = Get(bestDiff) THEN Some(v)
             ELSE IF IsNone(bestDiff) \/ diff < Get(bestDiff)
                  THEN ClosestLoop(vals, next_val, i + 1, Some(v), Some(diff))
                  ELSE ClosestLoop(vals, next_val, i + 1, best, bestDiff)

getClosestValue(vals, next_val) == ClosestLoop(vals, next_val, 0, None, None)

\* ---------------------------------------------------------------- QSlider
\* QAbstractSlider.setRange(0, len - 1): the maximum is never below the minimum.
SliderMaximum(vals) == IF Len(vals) - 1 < 0 THEN 0 ELSE Len(vals) - 1

\* QAbstractSlider.setValue clamps into [0, maximum].
Clamp(i, mx) == IF i < 0 THEN 0 ELSE IF i > mx THEN mx ELSE i

\* ---------------------------------------------------------------- _value_changed
\* _value_changed emitting the raw slider index in place of the value.
ValueChangedEmitsIndex(vals, new_value, txt) ==
    IF InBounds(vals, new_value)
    THEN [emitted |-> <<Float(new_value)>>,
          text    |-> Format(Some(At(vals, new_value))),
          err     |-> "none"]
    ELSE [emitted |-> <<>>, text |-> txt, err |-> "AttributeError"]

\* The effect of _value_changed(new_value) on the label, the signal and the
\* caller.  The except branch reads self.field, which no code sets.
ValueChanged(vals, new_value, txt) ==
    IF InBounds(vals, new_value)
    THEN [emitted |-> <<Float(At(vals, new_value))>>,
          text    |-> Format(Some(At(vals, new_value))),
          err     |-> "none"]
    ELSE [emitted |-> <<>>, text |-> txt, err |-> "AttributeError"]

\* slider.setValue(i): clamp, and run the connected _value_changed when the
\* value changes.
SliderSetValue(vals, cur, mx, txt, i) ==
    LET c == Clamp(i, mx)
    IN  IF c = cur
        THEN [index |-> cur, emitted |-> <<>>, text |-> txt, err |-> "none"]
        ELSE LET vc == ValueChanged(vals, c, txt)
             IN  [index |-> c, emitted |-> vc.emitted, text |-> vc.text, err |-> vc.err]

\* ---------------------------------------------------------------- setValue
\* setValue with the label written before the slider is moved.
SetValueLabelFirst(vals, cur, mx, txt, new_value) ==
    LET c == getClosestValue(vals, new_value)
        moved == IF IsNone(c)
                 THEN [index |-> cur, emitted |-> <<>>, text |-> Format(c), err |-> "none"]
                 ELSE SliderSetValue(vals, cur, mx, Format(c), ListIndex(vals, Get(c)))
    IN  [closest |-> c, index |-> moved.index, emitted |-> moved.emitted,
         text |-> moved.text, err |-> moved.err]

\* The state setValue(new_value) leaves behind.
SetValueResult(vals, cur, mx, txt, new_value) ==
    LET c == getClosestValue(vals, new_value)
        moved == IF IsNone(c)
                 THEN [index |-> cur, emitted |-> <<>>, text |-> txt, err |-> "none"]
                 ELSE SliderSetValue(vals, cur, mx, txt, ListIndex(vals, Get(c)))
    IN  [closest |-> c, index |-> moved.index, emitted |-> moved.emitted,
         text |-> Format(c), err |-> moved.err]

\* ---------------------------------------------------------------- construction
\* The PiCam variables while a LabeledVerticalSlider is studied on its own.
NoApp ==
    /\ sliders = <<>>
    /\ controls = <<>>
    /\ status = <<>>
    /\ config_visible = TRUE
    /\ current_mode = None
    /\ recording = FALSE
    /\ appOp = [op |-> "none", field |-> "", arg |-> None]
    /\ lastMeta = <<>>
    /\ applied = <<>>
    /\ appErr = "none"
    /\ modeOnly = TRUE

\* __init__(display_text, values, default, data_type)
ConstructResult(vals, dflt) ==
    LET base == [constructed |-> TRUE, index |-> 0, emitted |-> <<>>,
                 text |-> "", err |-> "none"]
    IN  IF IsNone(dflt) THEN base
        ELSE IF ~Contains(vals, Get(dflt))
             THEN [base EXCEPT !.constructed = FALSE, !.err = "ValueError"]
             ELSE LET r == SliderSetValue(vals, 0, SliderMaximum(vals), "",
                                          ListIndex(vals, Get(dflt)))
                  IN  [base EXCEPT !.index = r.index, !.emitted = r.emitted,
                                   !.text = r.text, !.err = r.err]

Init ==
    \E vals \in Domains, dflt \in {None} \cup {Some(v) : v \in RequestValues} :
        LET r == ConstructResult(vals, dflt)
        IN  /\ constructed = r.constructed
            /\ alive = TRUE
            /\ values = vals
            /\ default = dflt
            /\ internal = dflt
            /\ smax = SliderMaximum(vals)
            /\ index = r.index
            /\ text = r.text
            /\ closest = None
            /\ emitted = r.emitted
            /\ err = r.err
            /\ lastOp = [op |-> "init", arg |-> dflt]
            /\ repeated = FALSE
            /\ replaced = FALSE
            /\ selectedBefore = None
            /\ NoApp

\* ---------------------------------------------------------------- operations
\* setValue(new_value)
SetValue(new_value) ==
    /\ constructed /\ alive
    /\ LET r == SetValueResult(values, index, smax, text, new_value)
       IN  /\ internal' = Some(new_value)
           /\ closest' = r.closest
           /\ index' = r.index
           /\ text' = r.text
           /\ emitted' = r.emitted
           /\ err' = r.err
    /\ repeated' = (lastOp = [op |-> "setValue", arg |-> Some(new_value)])
    /\ lastOp' = [op |-> "setValue", arg |-> Some(new_value)]
    /\ selectedBefore' = None
    /\ UNCHANGED <<constructed, alive, values, default, smax, replaced>>
    /\ UNCHANGED appVars

\* setNewValues(new_values): self.values is replaced, then the argument of
\* setValue is evaluated: self.slider.getValue() is not a QSlider method.
SetNewValues(new_values) ==
    /\ constructed /\ alive
    /\ values' = new_values
    /\ err' = "AttributeError"
    /\ emitted' = <<>>
    /\ lastOp' = [op |-> "setNewValues", arg |-> new_values]
    /\ repeated' = FALSE
    /\ replaced' = TRUE
    /\ selectedBefore' = IF InBounds(values, index) THEN Some(At(values, index)) ELSE None
    /\ UNCHANGED <<constructed, alive, default, internal, smax, index, text, closest>>
    /\ UNCHANGED appVars

\* The user drags the slider to another position of its range; Qt runs the
\* slot _value_changed(i).  An exception leaving the slot is handed to
\* sys.excepthook: the process is aborted or goes on, depending on the hook.
SliderMoved(i) ==
    /\ constructed /\ alive
    /\ i \in 0..smax /\ i # index
    /\ index' = i
    /\ LET vc == ValueChanged(values, i, text)
       IN  /\ text' = vc.text
           /\ emitted' = vc.emitted
           /\ err' = vc.err
           /\ IF vc.err = "none" THEN alive' = TRUE ELSE alive' \in BOOLEAN
    /\ lastOp' = [op |-> "slider", arg |-> Some(i)]
    /\ repeated' = FALSE
    /\ selectedBefore' = None
    /\ UNCHANGED <<constructed, values, default, internal, smax, closest, replaced>>
    /\ UNCHANGED appVars

\* value()
Value ==
    IF ~IsNone(internal) THEN [err |-> "none", val |-> internal]
    ELSE IF InBounds(values, index)
         THEN [err |-> "none", val |-> Some(At(values, index))]
         ELSE [err |-> "IndexError", val |-> None]

Next ==
    \/ \E v \in RequestValues : SetValue(v)
    \/ \E d \in ReplacementDomains : SetNewValues(d)
    \/ \E i \in 0..MaxLen : SliderMoved(i)

Spec == Init /\ [][Next]_vars

\* ---------------------------------------------------------------- PiCam (src/app.py)
MaxPos == 2

FIELD_LUX == "Lux"
FIELD_FRAME_DURATION == "FrameDuration"
FIELD_BRIGHTNESS == "Brightness"
FIELD_CONTRAST == "Contrast"
FIELD_SHARPNESS == "Sharpness"
FIELD_EXPOSURE == "ExposureTime"
FIELD_ANALOGUE_GAIN == "AnalogueGain"
FIELD_SATURATION == "Saturation"
FIELD_FPS == "FrameRate"
FIELD_CUSTOM_STATUS == "Status"

MODE_CONFIG_SENSOR == "Sensor"
MODE_CONFIG_IMAGE == "Image"
MODE_TAKE_PHOTO == "Photo"
MODE_TOGGLE_RECORDING == "Record"

FPS_VALUES == <<1, 2, 3, 4, 5, 6, 7, 8, 9, 10, 15, 20, 25, 30>>

CONTROL_FIELDS_SENSOR == <<FIELD_FPS, FIELD_EXPOSURE, FIELD_ANALOGUE_GAIN>>
STATUS_FIELDS == {FIELD_CUSTOM_STATUS, FIELD_EXPOSURE, FIELD_LUX, FIELD_ANALOGUE_GAIN,
                  "ColourTemperature", "SensorTemperature", FIELD_FRAME_DURATION}

\* self.fields.keys(), in insertion order
FieldOrder == <<FIELD_FPS, FIELD_EXPOSURE, FIELD_ANALOGUE_GAIN, FIELD_BRIGHTNESS,
                FIELD_CONTRAST, FIELD_SHARPNESS, FIELD_SATURATION>>

TrackedFields == {FieldOrder[i] : i \in 1..Len(FieldOrder)}
SliderFields == {CONTROL_FIELDS_SENSOR[i] : i \in 1..Len(CONTROL_FIELDS_SENSOR)}

\* self.fields.  The float fields hold tenths: their values are written as
\* numerators over scale.
fields ==
    [f \in TrackedFields |->
        CASE f = FIELD_FPS ->
               [data_type |-> "int", scale |-> 1, values |-> FPS_VALUES,
                value_default |-> Some(10)]
          [] f = FIELD_EXPOSURE ->
               [data_type |-> "int", scale |-> 1,
                values |-> [i \in 1..21 |-> (i - 1) * 10000],
                value_default |-> Some(200000)]
          [] f = FIELD_ANALOGUE_GAIN ->
               [data_type |-> "int", scale |-> 1, values |-> [i \in 1..45 |-> i - 1],
                value_default |-> Some(1)]
          [] f = FIELD_BRIGHTNESS ->
               [data_type |-> "float", scale |-> 10, values |-> [i \in 1..21 |-> i - 11],
                value_default |-> Some(0)]
          [] OTHER ->
               [data_type |-> "float", scale |-> 10, values |-> [i \in 1..21 |-> i - 1],
                value_default |-> Some(10)]]

\* A value handed to picam2.set_controls, with its Python type.
Typed(t, v) == [type |-> t, val |-> v]

\* data_type(value) for the float payload of a notification: int() of an
\* integral float, float() of a float.
Convert(data_type, payload) == Typed(data_type, payload.val)

\* _update_field without the branch for a zero value.
UpdateFieldNoZeroBranch(ctl, field, payload) ==
    IF field \notin TrackedFields THEN ctl
    ELSE [ctl EXCEPT ![field] = Some(Convert(fields[field].data_type, payload))]

\* _update_field(field, value): the controls after the call.
UpdateField(ctl, field, payload) ==
    IF field \notin TrackedFields THEN ctl
    ELSE IF payload.val = 0
         THEN [ctl EXCEPT ![field] =
                   Some(Typed("int", Get(fields[field].value_default)))]
         ELSE [ctl EXCEPT ![field] = Some(Convert(fields[field].data_type, payload))]

\* self.values of the slider of a field: the list object of self.fields,
\* which PiCam never replaces (no setNewValues call is made).
SliderValues(sl) == fields[sl.field].values

\* The LabeledVerticalSlider built by _setup_ui_config_screen for a field.
NewSlider(field) ==
    LET r == ConstructResult(fields[field].values, fields[field].value_default)
    IN  [field |-> field,
         internal |-> fields[field].value_default,
         smax |-> SliderMaximum(fields[field].values),
         index |-> r.index,
         text |-> r.text]

\* value() of a slider of self.sliders
SliderValue(sl) ==
    IF ~IsNone(sl.internal) THEN [err |-> "none", val |-> sl.internal]
    ELSE IF InBounds(SliderValues(sl), sl.index)
         THEN [err |-> "none", val |-> Some(At(SliderValues(sl), sl.index))]
         ELSE [err |-> "IndexError", val |-> None]

\* The test of post_callback that skips a field: value() is compared with
\* value(); the metadata value is not looked at.
SkipField(sl, metaValue) == SliderValue(sl) = SliderValue(sl)

\* set_mode(mode): the status label and current_mode after the call.
SetMode(st, mode) ==
    [status |->
        IF mode = Some(MODE_CONFIG_SENSOR) THEN st
        ELSE IF mode = Some(MODE_TAKE_PHOTO)
             THEN [st EXCEPT ![FIELD_CUSTOM_STATUS] = "Taking photo..."]
        ELSE IF mode = Some(MODE_TOGGLE_RECORDING)
             THEN [st EXCEPT ![FIELD_CUSTOM_STATUS] = "Recording..."]
        ELSE [st EXCEPT ![FIELD_CUSTOM_STATUS] = "Ready."],
     current_mode |-> mode]

\* Metadata: the fields a request may carry and the values they may have
\* (None: the field is absent).
MetaFields == {FIELD_EXPOSURE, FIELD_ANALOGUE_GAIN, FIELD_BRIGHTNESS}
MetaValues(f) ==
    IF f = FIELD_EXPOSURE THEN {15000}
    ELSE IF f = FIELD_ANALOGUE_GAIN THEN {2}
    ELSE {0}
Metadata == {m \in [MetaFields -> {None} \cup {Some(v) : v \in {0, 2, 15000}}] :
                \A f \in MetaFields : IsNone(m[f]) \/ Get(m[f]) \in MetaValues(f)}

Present(meta, f) == f \in DOMAIN meta /\ ~IsNone(meta[f])

\* The loop of post_callback over self.fields.keys() from position i on.
RECURSIVE PostLoop(_, _, _, _, _)
PostLoop(i, meta, sl, ctl, calls) ==
    IF i > Len(FieldOrder)
    THEN [sliders |-> sl, controls |-> ctl, applied |-> calls, err |-> "none"]
    ELSE LET f == FieldOrder[i]
         IN  IF ~Present(meta, f) THEN PostLoop(i + 1, meta, sl, ctl, calls)
             ELSE IF f \notin DOMAIN sl
                  THEN [sliders |-> sl, controls |-> ctl, applied |-> calls,
                        err |-> "KeyError"]
             ELSE IF SkipField(sl[f], Get(meta[f]))
                  THEN PostLoop(i + 1, meta, sl, ctl, calls)
             ELSE IF f = FIELD_FRAME_DURATION
                  THEN [sliders |-> sl, controls |-> ctl, applied |-> calls,
                        err |-> "AttributeError"]
             ELSE LET r == SetValueResult(SliderValues(sl[f]), sl[f].index, sl[f].smax,
                                          sl[f].text, Get(meta[f]))
                      ctl2 == IF r.emitted = <<>> THEN ctl
                              ELSE UpdateField(ctl, f, r.emitted[1])
                      sl2 == [sl EXCEPT ![f].internal = meta[f], ![f].index = r.index,
                                        ![f].text = r.text]
                  IN  PostLoop(i + 1, meta, sl2, ctl2, Append(calls, <<f, Get(meta[f])>>))

\* The status labels post_callback writes for the metadata fields present.
PostLabels(st, meta) ==
    LET st1 == IF Present(meta, FIELD_ANALOGUE_GAIN)
               THEN [st EXCEPT ![FIELD_ANALOGUE_GAIN] =
                         ToString(Get(meta[FIELD_ANALOGUE_GAIN]) * 1) \o "x"]
               ELSE st
    IN  IF Present(meta, FIELD_EXPOSURE)
        THEN [st1 EXCEPT ![FIELD_EXPOSURE] =
                  "Ex: " \o ToString(Get(meta[FIELD_EXPOSURE]) \div 1000) \o "."
                         \o ToString((Get(meta[FIELD_EXPOSURE]) % 1000) \div 100) \o " ms"]
        ELSE st1

\* The slider variables while PiCam is studied.
NoSlider ==
    /\ constructed = FALSE
    /\ alive = TRUE
    /\ values = <<>>
    /\ default = None
    /\ internal = None
    /\ smax = 0
    /\ index = 0
    /\ text = ""
    /\ closest = None
    /\ emitted = <<>>
    /\ err = "none"
    /\ lastOp = [op |-> "none", arg |-> None]
    /\ repeated = FALSE
    /\ replaced = FALSE
    /\ selectedBefore = None

\* PiCam.__init__
AppInit ==
    /\ NoSlider
    /\ sliders = [f \in SliderFields |-> NewSlider(f)]
    /\ controls = [f \in TrackedFields |-> None]
    /\ status = [f \in STATUS_FIELDS |-> IF f = FIELD_CUSTOM_STATUS THEN "Ready." ELSE ""]
    /\ config_visible = TRUE
    /\ current_mode = None
    /\ recording = FALSE
    /\ appOp = [op |-> "init", field |-> "", arg |-> None]
    /\ lastMeta = [f \in MetaFields |-> None]
    /\ applied = <<>>
    /\ appErr = "none"
    /\ modeOnly = TRUE

\* The user drags the slider of a field to position i: _value_changed emits
\* value_changed, which runs _update_field(field, value), then writes the label.
AppSliderMoved(f, i) ==
    /\ f \in SliderFields
    /\ i \in 0..sliders[f].smax /\ i # sliders[f].index
    /\ LET vc == ValueChanged(SliderValues(sliders[f]), i, sliders[f].text)
       IN  /\ sliders' = [sliders EXCEPT ![f].index = i, ![f].text = vc.text]
           /\ controls' = IF vc.emitted = <<>> THEN controls
                          ELSE UpdateField(controls, f, vc.emitted[1])
           /\ appErr' = vc.err
    /\ appOp' = [op |-> "slider", field |-> f, arg |-> Some(i)]
    /\ lastMeta' = [g \in MetaFields |-> None]
    /\ applied' = <<>>
    /\ UNCHANGED <<status, config_visible, current_mode, recording, modeOnly>>
    /\ UNCHANGED sliderVars

\* post_callback(request)
PostCallback(meta) ==
    /\ LET r == PostLoop(1, meta, sliders, controls, <<>>)
       IN  /\ sliders' = r.sliders
           /\ controls' = r.controls
           /\ applied' = r.applied
           /\ appErr' = r.err
           /\ status' = IF r.err = "none" THEN PostLabels(status, meta) ELSE status
    /\ appOp' = [op |-> "post_callback", field |-> "", arg |-> None]
    /\ lastMeta' = meta
    /\ UNCHANGED <<config_visible, current_mode, recording, modeOnly>>
    /\ UNCHANGED sliderVars

\* The Sensor and Image buttons: set_mode(mode)
ConfigButton(mode) ==
    /\ mode \in {MODE_CONFIG_SENSOR, MODE_CONFIG_IMAGE}
    /\ LET r == SetMode(status, Some(mode))
       IN  /\ status' = r.status
           /\ current_mode' = r.current_mode
    /\ config_visible' = FALSE
    /\ modeOnly' = FALSE
    /\ appOp' = [op |-> "config", field |-> mode, arg |-> None]
    /\ lastMeta' = [g \in MetaFields |-> None]
    /\ applied' = <<>>
    /\ appErr' = "none"
    /\ UNCHANGED <<sliders, controls, recording>>
    /\ UNCHANGED sliderVars

\* on_button_take_picture_clicked
TakePicture ==
    /\ LET r == SetMode(SetMode(status, Some(MODE_TAKE_PHOTO)).status, None)
       IN  /\ status' = r.status
           /\ current_mode' = r.current_mode
    /\ config_visible' = FALSE
    /\ appOp' = [op |-> "photo", field |-> "", arg |-> None]
    /\ lastMeta' = [g \in MetaFields |-> None]
    /\ applied' = <<>>
    /\ appErr' = "none"
    /\ UNCHANGED <<sliders, controls, recording, modeOnly>>
    /\ UNCHANGED sliderVars

\* toggle_recording
ToggleRecording ==
    /\ LET r == IF ~recording THEN SetMode(status, Some(MODE_TOGGLE_RECORDING))
                ELSE SetMode(status, None)
       IN  /\ status' = r.status
           /\ current_mode' = r.current_mode
    /\ recording' = ~recording
    /\ config_visible' = FALSE
    /\ appOp' = [op |-> "record", field |-> "", arg |-> None]
    /\ lastMeta' = [g \in MetaFields |-> None]
    /\ applied' = <<>>
    /\ appErr' = "none"
    /\ UNCHANGED <<sliders, controls, modeOnly>>
    /\ UNCHANGED sliderVars

AppNext ==
    \/ \E f \in SliderFields, i \in 0..MaxPos : AppSliderMoved(f, i)
    \/ \E meta \in Metadata : PostCallback(meta)
    \/ \E mode \in {MODE_CONFIG_SENSOR, MODE_CONFIG_IMAGE} : ConfigButton(mode)
    \/ TakePicture
    \/ ToggleRecording

AppSpec == AppInit /\ [][AppNext]_vars

\* ---------------------------------------------------------------- properties
\* An in-bounds slider-driven change happened and no setValue or
\* setNewValues came after it.
SinceSlider == lastOp.op = "slider" /\ err = "none"

\* The requested value of the last setValue.
Requested == Get(lastOp.arg)

\* The least |v - d| over the elements d of a non-empty vals.
MinDiff(vals, v) ==
    CHOOSE m \in {Abs(v - vals[i]) : i \in 1..Len(vals)} :
        \A i \in 1..Len(vals) : m <= Abs(v - vals[i])

\* The first position (0-based) of vals whose element is at distance m of v.
FirstAtDiff(vals, v, m) ==
    CHOOSE i \in 0..(Len(vals) - 1) :
        /\ Abs(v - At(vals, i)) = m
        /\ \A j \in 0..(i - 1) : Abs(v - At(vals, j)) # m

MinOf(vals) == CHOOSE m \in {vals[i] : i \in 1..Len(vals)} : \A i \in 1..Len(vals) : m <= vals[i]
MaxOf(vals) == CHOOSE m \in {vals[i] : i \in 1..Len(vals)} : \A i \in 1..Len(vals) : m >= vals[i]

\* Two different domain values lie at the least distance of v.
TieAtMinimum(vals, v) ==
    \E i, j \in 1..Len(vals) :
        /\ vals[i] # vals[j]
        /\ Abs(v - vals[i]) = MinDiff(vals, v)
        /\ Abs(v - vals[j]) = MinDiff(vals, v)

\* C1: on a non-empty domain, after any sequence of setValue calls and
\* in-bounds slider-driven changes, value() returns an element of the domain.
C1_ValueInDomain ==
    (constructed /\ values # <<>> /\ ~replaced /\ err = "none"
        /\ lastOp.op \in {"setValue", "slider"})
    => (Value.err = "none" /\ Contains(values, Get(Value.val)))

\* C2: when two different domain values are equidistant from the requested
\* value and none is closer, setValue resolves to the one that comes first in
\* the stored order.
C2_TieGoesToFirst ==
    (constructed /\ lastOp.op = "setValue" /\ values # <<>>
        /\ TieAtMinimum(values, Requested))
    => closest = Some(At(values, FirstAtDiff(values, Requested, MinDiff(values, Requested))))

\* C3: on a non-empty domain in any order, setValue resolves to an element of
\* the domain at the least absolute difference from the requested value.
C3_GloballyClosest ==
    (constructed /\ lastOp.op = "setValue" /\ values # <<>>)
    => /\ ~IsNone(closest)
       /\ Contains(values, Get(closest))
       /\ Abs(Requested - Get(closest)) = MinDiff(values, Requested)

\* C4: a requested value below every element selects the minimum of the
\* domain, one above every element selects the maximum, without an error.
C4_SnapsToEndpoint ==
    (constructed /\ lastOp.op = "setValue" /\ values # <<>> /\ ~replaced)
    => /\ (Requested < MinOf(values)) =>
              (err = "none" /\ closest = Some(MinOf(values))
                 /\ InBounds(values, index) /\ At(values, index) = MinOf(values))
       /\ (Requested > MaxOf(values)) =>
              (err = "none" /\ closest = Some(MaxOf(values))
                 /\ InBounds(values, index) /\ At(values, index) = MaxOf(values))

\* C5: setNewValues completes without error and leaves selected the element
\* of the new domain closest to the value selected before the replacement.
C5_ReplaceReResolves ==
    (constructed /\ lastOp.op = "setNewValues" /\ ~IsNone(selectedBefore))
    => /\ err = "none"
       /\ InBounds(values, index)
       /\ Abs(Get(selectedBefore) - At(values, index)) = MinDiff(values, Get(selectedBefore))

\* C6: construction with an empty value sequence fails with
\* InvalidDomainError whatever the default; no instance has an empty domain.
C6_EmptyDomainRejected ==
    (lastOp.op = "init" /\ values = <<>>)
    => (~constructed /\ err = "InvalidDomainError")

\* C7: a slider-driven event whose raw index is not a position of the domain
\* is discarded: nothing is emitted, the label keeps its text and no
\* exception leaves the handler.
C7_OutOfBoundsDiscarded ==
    [][(lastOp'.op = "slider" /\ index' # index /\ ~InBounds(values', index'))
        => (emitted' = <<>> /\ text' = text /\ err' = "none")]_vars

\* C8: in every state reached by construction, setValue, setNewValues and
\* slider-driven changes, 0 <= index <= len(values) - 1 for a non-empty
\* current domain.
C8_IndexInBounds ==
    (constructed /\ values # <<>>) => InBounds(values, index)

\* C9: setValue(v) right after setValue(v) leaves the slider index and the
\* label text as the first call left them.
C9_SetValueIdempotent ==
    [][(lastOp.op = "setValue" /\ lastOp' = lastOp /\ repeated')
        => (index' = index /\ text' = text)]_vars

\* C9 witness: a second setValue(v) has run on a non-empty domain whose
\* snapped position is not the slider's initial one.
C9_Witness ==
    /\ constructed /\ repeated /\ lastOp.op = "setValue"
    /\ values # <<>> /\ ~IsNone(closest) /\ index > 0
    /\ text = Format(closest)

\* C10: after a slider-driven change to an in-bounds index, with no later
\* setValue, value() returns values[index], the value of the last
\* notification.
C10_ValueFollowsSlider ==
    (constructed /\ SinceSlider)
    => /\ Value.err = "none"
       /\ Value.val = Some(At(values, index))
       /\ emitted = <<Float(Get(Value.val))>>

\* C11: a programmatic setValue never emits value_changed, whatever the
\* requested value and the current index.
C11_SetValueSilent ==
    (constructed /\ lastOp.op = "setValue") => emitted = <<>>

\* C12: a slider-driven change to an in-bounds index i emits exactly one
\* notification, carrying values[i] and not i, and the label then shows
\* values[i].
C12_SliderEmitsValue ==
    (constructed /\ lastOp.op = "slider" /\ InBounds(values, index))
    => /\ emitted = <<Float(At(values, index))>>
       /\ text = Format(Some(At(values, index)))
       /\ err = "none"

\* C12 witness: the slider was dragged to an in-bounds position whose value
\* differs from the position itself.
C12_Witness ==
    /\ constructed /\ lastOp.op = "slider" /\ InBounds(values, index)
    /\ At(values, index) # index
    /\ Len(emitted) = 1 /\ emitted[1].val = At(values, index)

\* C13: construction on a non-empty domain succeeds with index 0 when the
\* default is not an element of the domain, and with the index at the
\* default's position when it is.
C13_DefaultPosition ==
    (lastOp.op = "init" /\ values # <<>> /\ ~IsNone(default))
    => /\ constructed
       /\ err = "none"
       /\ index = IF Contains(values, Get(default))
                  THEN ListIndex(values, Get(default)) ELSE 0

\* C14: after setValue on a non-empty domain, also after the domain was
\* replaced, the label shows the snapped value and that value is
\* values[index].
C14_LabelMatchesSlider ==
    (constructed /\ lastOp.op = "setValue" /\ values # <<>>)
    => /\ text = Format(closest)
       /\ InBounds(values, index)
       /\ closest = Some(At(values, index))

\* The setValue calls the metadata asks for, in the order of self.fields:
\* one for each field from position i on that has a slider, is present in
\* the metadata and whose metadata value differs from the slider's value().
RECURSIVE ExpectedCalls(_, _, _)
ExpectedCalls(i, meta, sl) ==
    IF i > Len(FieldOrder) THEN <<>>
    ELSE LET f == FieldOrder[i]
             rest == ExpectedCalls(i + 1, meta, sl)
         IN  IF Present(meta, f) /\ f \in DOMAIN sl /\ SliderValue(sl[f]).val # meta[f]
             THEN <<<<f, Get(meta[f])>>>> \o rest
             ELSE rest

\* C15: a metadata delivery applies setValue(metadata value) to the slider of
\* every tracked field that is present in the metadata with a value differing
\* from the slider's value, in the enumeration order of the tracked fields.
C15_MetadataApplied ==
    [][appOp'.op = "post_callback" => applied' = ExpectedCalls(1, lastMeta', sliders)]_vars

\* The field and the value of the notification of the last slider-driven change.
NotifiedField == appOp.field
NotifiedValue == At(fields[appOp.field].values, Get(appOp.arg))

\* C16 as stated: a notification carrying v for a tracked field sets the
\* camera control of the field to v in the field's numeric type, for every v
\* of the domain, 0 included.
C16_ControlFollowsValue ==
    (appOp.op = "slider" /\ appErr = "none")
    => controls[NotifiedField]
         = Some(Typed(fields[NotifiedField].data_type, NotifiedValue))

\* C16 amended: a notification carrying a non-zero v for a tracked field sets
\* the control of that field, and no other, to v in the field's numeric type;
\* one carrying 0 sets it to the field's default value; for an untracked
\* field no control is set.
C16_ControlFollowsNonZeroValue ==
    [][(appOp'.op = "slider" /\ sliders' # sliders)
        => LET f == appOp'.field
               v == At(fields[f].values, Get(appOp'.arg))
           IN  /\ controls' = [controls EXCEPT ![f] =
                      IF v = 0 THEN Some(Typed("int", Get(fields[f].value_default)))
                      ELSE Some(Typed(fields[f].data_type, v))]
               /\ \A g \in {FIELD_LUX, FIELD_FRAME_DURATION} :
                      UpdateField(controls', g, Float(v)) = controls']_vars

\* C16 witness: the exposure slider was dragged to the value 0 and its control
\* holds the default, after the frame-rate slider had set a non-zero control.
C16_Witness ==
    /\ appOp.op = "slider" /\ NotifiedField = FIELD_EXPOSURE /\ NotifiedValue = 0
    /\ controls[FIELD_EXPOSURE] = Some(Typed("int", 200000))
    /\ ~IsNone(controls[FIELD_FPS]) /\ Get(controls[FIELD_FPS]).val # 0

\* C17: after any sequence of Record-button and Photo-button events,
\* current_mode is 'Record', with the status 'Recording...', exactly when
\* the MP4 output is recording.
C17_ModeTracksRecording ==
    modeOnly
    => ((current_mode = Some(MODE_TOGGLE_RECORDING)
            /\ status[FIELD_CUSTOM_STATUS] = "Recording...") <=> recording)

====
